---- MODULE Spec2Model ----
(***************************************************************************)
(* The bounded job-dispatch subsystem of heictojpg (src/src/worker.rs) and *)
(* the caller side of it (src/src/handlers.rs, convert_handler).           *)
(*                                                                         *)
(* A job is identified by its submission number: jobs[j] is the j-th call  *)
(* of WorkerPool::submit.  The input bytes are opaque to the dispatcher;   *)
(* the conversion capability is modelled by the set of results a call of   *)
(* convert() can end with, a panic of the blocking closure included.       *)
(* The runtime is multi-threaded (#[tokio::main]), so the dispatcher, the  *)
(* execution tasks and the handlers interleave at every step below.        *)
(***************************************************************************)
EXTENDS Integers, Sequences, FiniteSets, TLC

\* Bounds of the model (not program constants).
MaxWorkers == 2
MaxQueue == 2
MaxJobs == 3
MaxCalls == 2

VARIABLES
    config,     \* Config consumed by WorkerPool::new: worker_count, queue_size
    queue,      \* jobs buffered in the mpsc channel (job_tx -> job_rx), oldest first
    closed,     \* TRUE once the WorkerPool (the only job_tx) has been dropped
    permits,    \* permits available in the semaphore
    dpc,        \* position of the dispatcher task: "recv", "acquire", "spawn", "exit"
    held,       \* the job the dispatcher has dequeued and not yet spawned (0: none)
    jobs,       \* one record per call of submit, in call order
    resp        \* the last value a handler's await of result_rx produced, and for which job

vars == <<config, queue, closed, permits, dpc, held, jobs, resp>>

W == config.worker_count
Q == config.queue_size

\* What a call of convert() inside spawn_blocking can end with: success, a
\* typed conversion error, or a panic of the closure.
ConvertOutcomes == {"Ok", "DecodeError", "Panic"}

\* An input is described by what the decoder and the encoder make of its
\* bytes: whether libheif reads a primary image from them, the dimensions of
\* that image, how decoding to RGB ends, and how the JPEG compression ends.
Inputs ==
    { [reads |-> FALSE, width |-> 0,     height |-> 0,    decodes |-> "Ok",    encodes |-> "Ok"],
      [reads |-> TRUE,  width |-> 4032,  height |-> 3024, decodes |-> "Ok",    encodes |-> "Ok"],
      [reads |-> TRUE,  width |-> 20000, height |-> 3024, decodes |-> "Ok",    encodes |-> "Ok"],
      [reads |-> TRUE,  width |-> 4032,  height |-> 3024, decodes |-> "Panic", encodes |-> "Ok"],
      [reads |-> TRUE,  width |-> 4032,  height |-> 3024, decodes |-> "Ok",    encodes |-> "EncodeError"] }

\* Requested qualities: below, inside and above the default range 60..95.
Qualities == {59, 85, 96}

\* worker.rs:29-33: the options the pool hands to every conversion.
ConvertOptions ==
    [max_resolution |-> config.max_resolution,
     min_quality |-> config.min_quality,
     max_quality |-> config.max_quality]

\* converter.rs:8-54: read the container, check the dimensions, decode.
DecodeHeic(data, max_resolution) ==
    IF ~data.reads THEN "DecodeError"
    ELSE IF data.width > max_resolution \/ data.height > max_resolution THEN "ImageTooLarge"
    ELSE data.decodes

\* converter.rs:57-83: the quality is clamped into the range and the image is
\* compressed.
EncodeJpeg(data, quality, min_q, max_q) == data.encodes

\* Mutant of Convert: the quality is looked at only once the image is decoded.
Convert_DecodeFirst(data, quality, options) ==
    LET d == DecodeHeic(data, options.max_resolution) IN
    IF d # "Ok" THEN d
    ELSE IF quality < options.min_quality \/ quality > options.max_quality
         THEN "InvalidQuality"
         ELSE EncodeJpeg(data, quality, options.min_quality, options.max_quality)

\* converter.rs:98-111: convert() checks the quality, then decodes, then encodes.
Convert(data, quality, options) ==
    IF quality < options.min_quality \/ quality > options.max_quality
    THEN "InvalidQuality"
    ELSE LET d == DecodeHeic(data, options.max_resolution) IN
         IF d # "Ok" THEN d
         ELSE EncodeJpeg(data, quality, options.min_quality, options.max_quality)

\* Mutant of JoinResult: the JoinError is unwrapped, so the panic of the closure
\* travels on as the task's result.
JoinResult_Propagates(outcome) == outcome

\* worker.rs:55-59: the JoinHandle's value; a JoinError (the closure panicked)
\* becomes Err(ConvertError::Internal).
JoinResult(outcome) == IF outcome = "Panic" THEN "Internal" ELSE outcome

\* Mutant of TrySend: a channel whose receiver is gone still takes messages
\* while it has room.
TrySend_IgnoresClosed(buf, cap, rxAlive) ==
    IF Len(buf) >= cap THEN "Full" ELSE "Ok"

\* Mutant of TrySend: the capacity test is off by one.
TrySend_OffByOne(buf, cap, rxAlive) ==
    IF ~rxAlive THEN "Closed"
    ELSE IF Len(buf) > cap THEN "Full"
    ELSE "Ok"

\* tokio mpsc try_send on a channel of capacity cap holding buf.
TrySend(buf, cap, rxAlive) ==
    IF ~rxAlive THEN "Closed"
    ELSE IF Len(buf) >= cap THEN "Full"
    ELSE "Ok"

\* Mutant of SubmitResult: the job is accepted however many are buffered, as
\* with an unbounded channel.
SubmitResult_NoLimit(buf, cap, rxAlive) ==
    IF rxAlive THEN "Accepted" ELSE "QueueFull"

\* Mutant of SubmitResult: admission also looks at the workers and turns the
\* job away when no permit is free.
SubmitResult_WhenBusy(buf, cap, rxAlive) ==
    IF TrySend(buf, cap, rxAlive) = "Ok" /\ permits > 0 THEN "Accepted" ELSE "QueueFull"

\* worker.rs:92-94: every try_send error is mapped to QueueFull.
SubmitResult(buf, cap, rxAlive) ==
    IF TrySend(buf, cap, rxAlive) = "Ok" THEN "Accepted" ELSE "QueueFull"

\* st: where the job is; result: `result` of the execution task (worker.rs:55);
\* nsent: values sent on the job's oneshot channel; slot: the value the channel
\* holds; rx: the caller's end of the channel (response_rx).
NewJob(st, rx) == [st |-> st, result |-> "none", nsent |-> 0, slot |-> "none", rx |-> rx]

NoResp == [job |-> 0, val |-> "none"]

JobIds == 1..Len(jobs)

\* Mutant of AwaitResult: a dropped sender is reported like a failed decode.
AwaitResult_AsDecodeError(job) ==
    IF job.slot # "none" THEN job.slot ELSE "DecodeError"

\* handlers.rs:123-125: the awaited receiver yields the value sent, or, when
\* the sender was dropped without sending, Internal("Worker dropped").
AwaitResult(job) ==
    IF job.slot # "none" THEN job.slot ELSE "Internal(Worker dropped)"

\* The pool as WorkerPool::new leaves it, for the configurations of the
\* documented domain (worker_count >= 1, queue_size >= 1); what
\* Config::from_env can yield beyond that domain is InitConfig's subject.
Init ==
    /\ config \in [worker_count : 1..MaxWorkers, queue_size : 1..MaxQueue]
    /\ queue = <<>>
    /\ closed = FALSE
    /\ permits = config.worker_count
    /\ dpc = "recv"
    /\ held = 0
    /\ jobs = <<>>
    /\ resp = NoResp

\* Mutant of Submit: a job that finds the queue full is turned away, but the
\* oldest buffered job is pushed out with it.
Submit_FullEvicts(limit) ==
    /\ ~closed
    /\ Len(jobs) < limit
    /\ LET j == Len(jobs) + 1
           r == SubmitResult(queue, Q, dpc # "exit")
       IN IF r = "Accepted"
          THEN /\ queue' = Append(queue, j)
               /\ jobs' = Append(jobs, NewJob("queued", "waiting"))
          ELSE /\ queue' = IF queue = <<>> THEN queue ELSE Tail(queue)
               /\ jobs' = Append(jobs, NewJob("rejected", "none"))
    /\ UNCHANGED <<config, closed, permits, dpc, held, resp>>

\* Mutant of Submit: a blocking send().await, which waits for queue space.
Submit_Blocking(limit) ==
    /\ ~closed
    /\ Len(jobs) < limit
    /\ Len(queue) < Q
    /\ queue' = Append(queue, Len(jobs) + 1)
    /\ jobs' = Append(jobs, NewJob("queued", "waiting"))
    /\ UNCHANGED <<config, closed, permits, dpc, held, resp>>

\* WorkerPool::submit (worker.rs:79-97): one non-blocking try_send.  `limit`
\* bounds the number of calls the callers make.
Submit(limit) ==
    /\ ~closed
    /\ Len(jobs) < limit
    /\ LET j == Len(jobs) + 1
           r == SubmitResult(queue, Q, dpc # "exit")
       IN IF r = "Accepted"
          THEN /\ queue' = Append(queue, j)
               /\ jobs' = Append(jobs, NewJob("queued", "waiting"))
          ELSE /\ queue' = queue
               /\ jobs' = Append(jobs, NewJob("rejected", "none"))
    /\ UNCHANGED <<config, closed, permits, dpc, held, resp>>

\* WorkerPool::submit (worker.rs:79-97) with the job's arguments kept: the Job
\* is built from input and quality (worker.rs:84-90) and offered to the channel.
SubmitWith(limit, data, quality) ==
    /\ ~closed
    /\ Len(jobs) < limit
    /\ LET j == Len(jobs) + 1
           r == SubmitResult(queue, Q, dpc # "exit")
           args == [input |-> data, quality |-> quality]
       IN IF r = "Accepted"
          THEN /\ queue' = Append(queue, j)
               /\ jobs' = Append(jobs, NewJob("queued", "waiting") @@ args)
          ELSE /\ queue' = queue
               /\ jobs' = Append(jobs, NewJob("rejected", "none") @@ args)
    /\ UNCHANGED <<config, closed, permits, dpc, held, resp>>

\* Mutant of DispatcherRecv: the dispatcher goes on receiving while the job in
\* its hand still waits for a permit.
DispatcherRecv_Eager ==
    /\ dpc \in {"recv", "acquire"}
    /\ \/ /\ queue # <<>>
          /\ held' = Head(queue)
          /\ queue' = Tail(queue)
          /\ jobs' = [jobs EXCEPT ![Head(queue)].st = "held"]
          /\ dpc' = "acquire"
       \/ /\ queue = <<>>
          /\ closed
          /\ dpc = "recv"
          /\ dpc' = "exit"
          /\ UNCHANGED <<held, queue, jobs>>
    /\ UNCHANGED <<config, closed, permits, resp>>

\* Mutant of DispatcherRecv: the loop ends as soon as the channel is closed,
\* leaving the buffered jobs behind.
DispatcherRecv_ExitOnClose ==
    /\ dpc = "recv"
    /\ \/ /\ queue # <<>>
          /\ ~closed
          /\ held' = Head(queue)
          /\ queue' = Tail(queue)
          /\ jobs' = [jobs EXCEPT ![Head(queue)].st = "held"]
          /\ dpc' = "acquire"
       \/ /\ closed
          /\ dpc' = "exit"
          /\ UNCHANGED <<held, queue, jobs>>
    /\ UNCHANGED <<config, closed, permits, resp>>

\* Mutant of DispatcherRecv: a job whose caller is gone (response_tx is closed)
\* is thrown away at the dequeue instead of being converted.
DispatcherRecv_SkipsAbandoned ==
    /\ dpc = "recv"
    /\ \/ /\ queue # <<>>
          /\ jobs[Head(queue)].rx # "dropped"
          /\ held' = Head(queue)
          /\ queue' = Tail(queue)
          /\ jobs' = [jobs EXCEPT ![Head(queue)].st = "held"]
          /\ dpc' = "acquire"
       \/ /\ queue # <<>>
          /\ jobs[Head(queue)].rx = "dropped"
          /\ queue' = Tail(queue)
          /\ jobs' = [jobs EXCEPT ![Head(queue)].st = "done"]
          /\ UNCHANGED <<held, dpc>>
       \/ /\ queue = <<>>
          /\ closed
          /\ dpc' = "exit"
          /\ UNCHANGED <<held, queue, jobs>>
    /\ UNCHANGED <<config, closed, permits, resp>>

\* Mutant of DispatcherRecv: the newest job is taken first.
DispatcherRecv_Lifo ==
    /\ dpc = "recv"
    /\ \/ /\ queue # <<>>
          /\ held' = queue[Len(queue)]
          /\ queue' = SubSeq(queue, 1, Len(queue) - 1)
          /\ jobs' = [jobs EXCEPT ![queue[Len(queue)]].st = "held"]
          /\ dpc' = "acquire"
       \/ /\ queue = <<>>
          /\ closed
          /\ dpc' = "exit"
          /\ UNCHANGED <<held, queue, jobs>>
    /\ UNCHANGED <<config, closed, permits, resp>>

\* worker.rs:38: job_rx.recv() returns the oldest job, or None once the channel
\* is closed and empty, which ends the loop.
DispatcherRecv ==
    /\ dpc = "recv"
    /\ \/ /\ queue # <<>>
          /\ held' = Head(queue)
          /\ queue' = Tail(queue)
          /\ jobs' = [jobs EXCEPT ![Head(queue)].st = "held"]
          /\ dpc' = "acquire"
       \/ /\ queue = <<>>
          /\ closed
          /\ dpc' = "exit"
          /\ UNCHANGED <<held, queue, jobs>>
    /\ UNCHANGED <<config, closed, permits, resp>>

\* Mutant of DispatcherAcquire: the task is spawned without waiting for a permit.
DispatcherAcquire_NoWait ==
    /\ dpc = "acquire"
    /\ permits' = IF permits > 0 THEN permits - 1 ELSE 0
    /\ dpc' = "spawn"
    /\ UNCHANGED <<config, queue, closed, held, jobs, resp>>

\* worker.rs:42-45: acquire_owned().await suspends until a permit is available.
\* Nothing in the repository closes the semaphore, so the Err arm is never taken.
DispatcherAcquire ==
    /\ dpc = "acquire"
    /\ permits > 0
    /\ permits' = permits - 1
    /\ dpc' = "spawn"
    /\ UNCHANGED <<config, queue, closed, held, jobs, resp>>

\* Mutant of DispatcherAcquireClosed: the loop ends, but the job in hand is
\* handed to an execution task all the same.
DispatcherAcquireClosed_RunsHeld ==
    /\ dpc = "acquire"
    /\ dpc' = "exit"
    /\ held' = 0
    /\ queue' = <<>>
    /\ jobs' = [j \in JobIds |->
                  IF j = held THEN [jobs[j] EXCEPT !.st = "spawned"]
                  ELSE IF \E i \in 1..Len(queue) : queue[i] = j
                       THEN [jobs[j] EXCEPT !.st = "dropped"]
                       ELSE jobs[j]]
    /\ UNCHANGED <<config, closed, permits, resp>>

\* worker.rs:42-45, the Err arm: acquire_owned() fails because the semaphore
\* was closed, and `break` ends the dispatcher task.  The task's locals are
\* dropped: `job`, and job_rx with every job still buffered in the channel;
\* their response_tx go with them, unsent.  Closing the semaphore has no other
\* effect the pool can see, so the event is modelled at the acquire that meets
\* it, whether or not a permit is available.  Nothing in the repository closes
\* the semaphore: this action is part of SpecClose only.
DispatcherAcquireClosed ==
    /\ dpc = "acquire"
    /\ dpc' = "exit"
    /\ held' = 0
    /\ queue' = <<>>
    /\ jobs' = [j \in JobIds |->
                  IF j = held \/ \E i \in 1..Len(queue) : queue[i] = j
                  THEN [jobs[j] EXCEPT !.st = "dropped"]
                  ELSE jobs[j]]
    /\ UNCHANGED <<config, closed, permits, resp>>

\* worker.rs:47-63: tokio::spawn of the execution task, which owns the permit
\* and the job; the loop goes back to recv without waiting for it.
DispatcherSpawn ==
    /\ dpc = "spawn"
    /\ jobs' = [jobs EXCEPT ![held].st = "spawned"]
    /\ held' = 0
    /\ dpc' = "recv"
    /\ UNCHANGED <<config, queue, closed, permits, resp>>

\* Mutant of ExecStart: the permit is bound to `_` instead of `_permit`, so it
\* is dropped as the task starts, and the end of the block releases once more.
ExecStart_DropsPermit(j) ==
    /\ j \in JobIds
    /\ jobs[j].st = "spawned"
    /\ jobs' = [jobs EXCEPT ![j].st = "running"]
    /\ permits' = permits + 1
    /\ UNCHANGED <<config, queue, closed, dpc, held, resp>>

\* worker.rs:55-57: the execution task hands convert() to the blocking pool.
ExecStart(j) ==
    /\ j \in JobIds
    /\ jobs[j].st = "spawned"
    /\ jobs' = [jobs EXCEPT ![j].st = "running"]
    /\ UNCHANGED <<config, queue, closed, permits, dpc, held, resp>>

\* Mutant of ExecJoin: a conversion that failed is tried again.
ExecJoin_Retry(j, outcomes) ==
    /\ j \in JobIds
    /\ jobs[j].st = "running"
    /\ \E o \in outcomes :
          IF o = "Ok"
          THEN jobs' = [jobs EXCEPT ![j].st = "joined", ![j].result = JoinResult(o)]
          ELSE jobs' = [jobs EXCEPT ![j].st = "spawned"]
    /\ UNCHANGED <<config, queue, closed, permits, dpc, held, resp>>

\* Mutant of ExecJoin: a panic of the conversion ends the execution task on
\* the spot, before the permit is given back.
ExecJoin_PanicLeaks(j, outcomes) ==
    /\ j \in JobIds
    /\ jobs[j].st = "running"
    /\ \E o \in outcomes :
          IF o = "Panic"
          THEN jobs' = [jobs EXCEPT ![j].st = "done"]
          ELSE jobs' = [jobs EXCEPT ![j].st = "joined", ![j].result = JoinResult(o)]
    /\ UNCHANGED <<config, queue, closed, permits, dpc, held, resp>>

\* worker.rs:55-59: convert() returns or panics; the task resumes with `result`.
\* `outcomes` is what the conversion capability can do in this environment.
ExecJoin(j, outcomes) ==
    /\ j \in JobIds
    /\ jobs[j].st = "running"
    /\ \E o \in outcomes :
          jobs' = [jobs EXCEPT ![j].st = "joined", ![j].result = JoinResult(o)]
    /\ UNCHANGED <<config, queue, closed, permits, dpc, held, resp>>

\* Mutant of ExecSend: the value is sent but the task does not move on, so it
\* sends again.
ExecSend_Resend(j) ==
    /\ j \in JobIds
    /\ jobs[j].st \in {"joined", "sent"}
    /\ jobs[j].result # "none"
    /\ jobs[j].rx # "dropped"
    /\ jobs' = [jobs EXCEPT ![j].st = "sent",
                           ![j].nsent = @ + 1, ![j].slot = jobs[j].result]
    /\ UNCHANGED <<config, queue, closed, permits, dpc, held, resp>>

\* worker.rs:61-62: response_tx.send(result) moves the value into the channel;
\* the Err it returns when the receiver is gone is ignored.
ExecSend(j) ==
    /\ j \in JobIds
    /\ jobs[j].st = "joined"
    /\ IF jobs[j].rx = "dropped"
       THEN jobs' = [jobs EXCEPT ![j].st = "sent", ![j].result = "none"]
       ELSE jobs' = [jobs EXCEPT ![j].st = "sent", ![j].result = "none",
                                 ![j].nsent = @ + 1, ![j].slot = jobs[j].result]
    /\ UNCHANGED <<config, queue, closed, permits, dpc, held, resp>>

\* Mutant of ExecRelease: the task ends without giving its permit back.
ExecRelease_Leak(j) ==
    /\ j \in JobIds
    /\ jobs[j].st = "sent"
    /\ jobs' = [jobs EXCEPT ![j].st = "done"]
    /\ UNCHANGED <<config, queue, closed, permits, dpc, held, resp>>

\* worker.rs:52,63: _permit is dropped when the task's block ends.
ExecRelease(j) ==
    /\ j \in JobIds
    /\ jobs[j].st = "sent"
    /\ jobs' = [jobs EXCEPT ![j].st = "done"]
    /\ permits' = permits + 1
    /\ UNCHANGED <<config, queue, closed, dpc, held, resp>>

\* handlers.rs:122-125: the handler's await of result_rx completes once a value
\* was sent or the sender was dropped.
HandlerRecv(j) ==
    /\ j \in JobIds
    /\ jobs[j].rx = "waiting"
    /\ jobs[j].slot # "none" \/ jobs[j].st = "dropped"
    /\ jobs' = [jobs EXCEPT ![j].rx = "got", ![j].slot = "none"]
    /\ resp' = [job |-> j, val |-> AwaitResult(jobs[j])]
    /\ UNCHANGED <<config, queue, closed, permits, dpc, held>>

\* Mutant of HandlerAbandon: dropping the handle cancels the job's execution
\* task, which gives its permit back at once.
HandlerAbandon_Cancel(j) ==
    /\ j \in JobIds
    /\ jobs[j].rx = "waiting"
    /\ IF jobs[j].st \in {"spawned", "running", "joined"}
       THEN /\ jobs' = [jobs EXCEPT ![j].rx = "dropped", ![j].slot = "none",
                                   ![j].st = "done", ![j].result = "none"]
            /\ permits' = permits + 1
       ELSE /\ jobs' = [jobs EXCEPT ![j].rx = "dropped", ![j].slot = "none"]
            /\ permits' = permits
    /\ UNCHANGED <<config, queue, closed, dpc, held, resp>>

\* The handler future is dropped while it awaits result_rx (the client went
\* away): response_rx is dropped, and with it a value already in the channel.
HandlerAbandon(j) ==
    /\ j \in JobIds
    /\ jobs[j].rx = "waiting"
    /\ jobs' = [jobs EXCEPT ![j].rx = "dropped", ![j].slot = "none"]
    /\ UNCHANGED <<config, queue, closed, permits, dpc, held, resp>>

\* AppState, and with it the WorkerPool and its job_tx, is dropped once the
\* server has stopped and no handler holds the state any more.
DropPool ==
    /\ ~closed
    /\ \A j \in JobIds : jobs[j].rx # "waiting"
    /\ closed' = TRUE
    /\ UNCHANGED <<config, queue, permits, dpc, held, jobs, resp>>

Next ==
    \/ Submit(MaxJobs)
    \/ DispatcherRecv
    \/ DispatcherAcquire
    \/ DispatcherSpawn
    \/ \E j \in JobIds : ExecStart(j)
    \/ \E j \in JobIds : ExecJoin(j, ConvertOutcomes)
    \/ \E j \in JobIds : ExecSend(j)
    \/ \E j \in JobIds : ExecRelease(j)
    \/ \E j \in JobIds : HandlerRecv(j)
    \/ \E j \in JobIds : HandlerAbandon(j)
    \/ DropPool

Spec == Init /\ [][Next]_vars

\* Scheduling: the runtime polls every task that can make progress, the
\* blocking pool runs every closure handed to it, and a call of convert()
\* terminates.  Callers are not obliged to submit, to abandon or to shut down.
Fairness(n, outcomes) ==
    /\ WF_vars(DispatcherRecv)
    /\ WF_vars(DispatcherAcquire)
    /\ WF_vars(DispatcherSpawn)
    /\ \A j \in 1..n :
          /\ WF_vars(ExecStart(j))
          /\ WF_vars(ExecJoin(j, outcomes))
          /\ WF_vars(ExecSend(j))
          /\ WF_vars(ExecRelease(j))
          /\ WF_vars(HandlerRecv(j))

SpecFair == Init /\ [][Next]_vars /\ Fairness(MaxJobs, ConvertOutcomes)

\* The pool in an environment that shuts the concurrency limiter down: the
\* acquire of the dispatcher may fail with the semaphore closed.
NextClose ==
    \/ Next
    \/ DispatcherAcquireClosed

SpecClose == Init /\ [][NextClose]_vars

\* The pool with the conversion spelled out: the default limits of
\* Config::from_env (config.rs:93,103,108), callers that choose input and
\* quality and wait for the result, and convert() applied to what they chose.
InitConvert ==
    /\ config \in [worker_count : 1..2, queue_size : {1},
                    max_resolution : {16384}, min_quality : {60}, max_quality : {95}]
    /\ queue = <<>>
    /\ closed = FALSE
    /\ permits = config.worker_count
    /\ dpc = "recv"
    /\ held = 0
    /\ jobs = <<>>
    /\ resp = NoResp

NextConvert ==
    \/ \E data \in Inputs, quality \in Qualities : SubmitWith(MaxCalls, data, quality)
    \/ DispatcherRecv
    \/ DispatcherAcquire
    \/ DispatcherSpawn
    \/ \E j \in JobIds : ExecStart(j)
    \/ \E j \in JobIds :
          ExecJoin(j, {Convert(jobs[j].input, jobs[j].quality, ConvertOptions)})
    \/ \E j \in JobIds : ExecSend(j)
    \/ \E j \in JobIds : ExecRelease(j)
    \/ \E j \in JobIds : HandlerRecv(j)

SpecConvert == InitConvert /\ [][NextConvert]_vars

\* An environment variable as Config::from_env sees it: not set, set to text
\* that is no number, or set to the decimal number n.
Unset == [kind |-> "unset"]
NotANumber == [kind |-> "text"]
Num(n) == [kind |-> "num", n |-> n]

\* config.rs:76-79 and alike: env::var(..).ok().and_then(|v| v.parse().ok())
\* .unwrap_or(default).  parse() fails on text and on a number above the
\* field type's maximum; every number it yields is taken as it is.  The
\* numbers considered here are far below the maximum of usize and u32.
ParseOr(v, default) ==
    IF v.kind = "num" THEN v.n ELSE default

\* The same for a u8 field (config.rs:95-108): a number above 255 does not
\* parse.
ParseU8Or(v, default) ==
    IF v.kind = "num" /\ v.n <= 255 THEN v.n ELSE default

\* config.rs:40-56.
DetectOptimalWorkers(logical_cores) ==
    LET workers == IF logical_cores > 4 THEN logical_cores - 1 ELSE logical_cores
    IN IF workers > 2 THEN workers ELSE 2

\* config.rs:64-67.
CalculateOptimalQueueSize(worker_count) ==
    LET base_queue == worker_count * 4
    IN IF base_queue > 100 THEN base_queue ELSE 100

\* config.rs:70-129, the fields the pool, the handler and the conversion read.
FromEnv(env) ==
    LET optimal_workers == DetectOptimalWorkers(env.cores)
        worker_count == ParseOr(env.WORKER_COUNT, optimal_workers)
        default_queue == CalculateOptimalQueueSize(worker_count)
    IN [worker_count |-> worker_count,
        queue_size |-> ParseOr(env.QUEUE_SIZE, default_queue),
        max_resolution |-> ParseOr(env.MAX_RESOLUTION, 16384),
        default_quality |-> ParseU8Or(env.DEFAULT_QUALITY, 85),
        min_quality |-> ParseU8Or(env.MIN_QUALITY, 60),
        max_quality |-> ParseU8Or(env.MAX_QUALITY, 95)]

\* The environments considered: the machine's logical cores and the overrides.
Envs ==
    [cores : {2, 8},
     WORKER_COUNT : {Unset, NotANumber, Num(0), Num(1)},
     QUEUE_SIZE : {Unset, Num(0), Num(1)},
     MAX_RESOLUTION : {Unset, Num(0)},
     DEFAULT_QUALITY : {Unset},
     MIN_QUALITY : {Unset, Num(0), Num(96), Num(300)},
     MAX_QUALITY : {Unset, Num(50)}]

\* main.rs:36-47: the configuration is read from the environment and the pool
\* is built from it.  mpsc::channel(0) panics, so with queue_size = 0 main
\* ends in WorkerPool::new and there is no pool and no dispatcher.
InitConfig ==
    \E env \in Envs :
        /\ config = FromEnv(env)
        /\ queue = <<>>
        /\ held = 0
        /\ jobs = <<>>
        /\ resp = NoResp
        /\ IF config.queue_size = 0
           THEN closed = TRUE /\ dpc = "exit" /\ permits = 0
           ELSE closed = FALSE /\ dpc = "recv" /\ permits = config.worker_count

\* The pool serving requests that name no quality: the handler submits them
\* with config.default_quality (handlers.rs:36,120).
NextConfig ==
    \/ \E data \in {d \in Inputs : d.decodes = "Ok" /\ d.encodes = "Ok"} :
          SubmitWith(MaxCalls, data, config.default_quality)
    \/ DispatcherRecv
    \/ DispatcherAcquire
    \/ DispatcherSpawn
    \/ \E j \in JobIds : ExecStart(j)
    \/ \E j \in JobIds :
          ExecJoin(j, {Convert(jobs[j].input, jobs[j].quality, ConvertOptions)})
    \/ \E j \in JobIds : ExecSend(j)
    \/ \E j \in JobIds : ExecRelease(j)
    \/ \E j \in JobIds : HandlerRecv(j)

SpecConfig == InitConfig /\ [][NextConfig]_vars

\* A burst: callers submit up to BurstJobs jobs, more than the queue, the
\* dispatcher's hand and the workers take together in all but the largest
\* configuration, and wait for their results; every conversion succeeds.
BurstJobs == MaxJobs + 2

NextBurst ==
    \/ Submit(BurstJobs)
    \/ DispatcherRecv
    \/ DispatcherAcquire
    \/ DispatcherSpawn
    \/ \E j \in JobIds : ExecStart(j)
    \/ \E j \in JobIds : ExecJoin(j, {"Ok"})
    \/ \E j \in JobIds : ExecSend(j)
    \/ \E j \in JobIds : ExecRelease(j)
    \/ \E j \in JobIds : HandlerRecv(j)

SpecBurst == Init /\ [][NextBurst]_vars

\* The scenario of the specification's section 8: two workers, a queue of
\* four, six submissions, every conversion succeeds after a finite time and
\* every caller waits for its result.
InitScenario ==
    /\ config = [worker_count |-> 2, queue_size |-> 4]
    /\ queue = <<>>
    /\ closed = FALSE
    /\ permits = config.worker_count
    /\ dpc = "recv"
    /\ held = 0
    /\ jobs = <<>>
    /\ resp = NoResp

NextScenario ==
    \/ Submit(6)
    \/ DispatcherRecv
    \/ DispatcherAcquire
    \/ DispatcherSpawn
    \/ \E j \in JobIds : ExecStart(j)
    \/ \E j \in JobIds : ExecJoin(j, {"Ok"})
    \/ \E j \in JobIds : ExecSend(j)
    \/ \E j \in JobIds : ExecRelease(j)
    \/ \E j \in JobIds : HandlerRecv(j)

SpecScenario == InitScenario /\ [][NextScenario]_vars /\ Fairness(6, {"Ok"})

----------------------------------------------------------------------------
\* Derived notions.
St(j) == IF j \in JobIds THEN jobs[j].st ELSE "new"
Rx(j) == IF j \in JobIds THEN jobs[j].rx ELSE "none"
Accepted == {j \in JobIds : jobs[j].st # "rejected"}
Rejected == {j \in JobIds : jobs[j].st = "rejected"}
Executing == {j \in JobIds : jobs[j].st = "running"}
\* Jobs whose execution task exists and holds a permit.
InFlight == {j \in JobIds : jobs[j].st \in {"spawned", "running", "joined", "sent"}}
\* Jobs a permit is held for: from the acquire that succeeded for the job
\* (worker.rs:42; `permit` is a local of the dispatcher until tokio::spawn moves
\* it into the task) to the end of its execution task (worker.rs:63).
PermitHolders == InFlight \cup (IF dpc = "spawn" THEN {held} ELSE {})
Dequeued(j) == St(j) \in {"held", "spawned", "running", "joined", "sent", "done"}
Handed(j) == St(j) \in {"spawned", "running", "joined", "sent", "done"}
Started(j) == St(j) \in {"running", "joined", "sent", "done"}
Returned(j) == St(j) \in {"joined", "sent", "done"}

----------------------------------------------------------------------------
\* C1: at every moment the number of conversions executing at the same time
\* is at most the worker count W, whatever the capacity and the submissions.
C1_ConcurrencyBound == Cardinality(Executing) <= W

\* C1 witness: W = 2 conversions execute while a burst has filled the queue.
C1_Witness ==
    /\ W = 2
    /\ Cardinality(Executing) = W
    /\ Len(queue) = Q

\* C2: the number of jobs enqueued by submit and not yet dequeued by the
\* dispatcher never exceeds the capacity Q.
C2_QueueBound == Len(queue) <= Q

\* C2 witness: a queue of capacity 2 is full and the submission that found it
\* full was turned away.
C2_Witness ==
    /\ Q = 2
    /\ Len(queue) = Q
    /\ Len(jobs) > 0
    /\ jobs[Len(jobs)].st = "rejected"

\* A step that is a call of submit: the calls made so far grow by one.
SubmitStep == Len(jobs') = Len(jobs) + 1

\* C3: submit never waits for queue space (it can always take its step while
\* the pool exists), and its single step returns a handle and enqueues the job
\* when fewer than Q jobs are queued, and returns QueueFull, enqueuing nothing,
\* when Q jobs are queued.
C3_SubmitNonBlocking ==
    /\ []((~closed /\ Len(jobs) < MaxJobs) => ENABLED Submit(MaxJobs))
    /\ [][SubmitStep =>
            LET j == Len(jobs') IN
            /\ Len(queue) < Q =>
                  /\ jobs'[j].st = "queued"
                  /\ jobs'[j].rx = "waiting"
                  /\ queue' = Append(queue, j)
            /\ Len(queue) >= Q =>
                  /\ jobs'[j].st = "rejected"
                  /\ jobs'[j].rx = "none"
                  /\ queue' = queue]_vars

\* C3 witness: with every permit taken and the queue full, the latest call of
\* submit has returned QueueFull.
C3_Witness ==
    /\ Len(jobs) > 0
    /\ jobs[Len(jobs)].st = "rejected"
    /\ Len(queue) = Q
    /\ permits = 0
    /\ ~closed

\* C4 (the claim as stated): once Q + W + 1 jobs have been submitted and no
\* conversion has returned, at least one submission was rejected with
\* QueueFull.
C4_RejectionAfterQW1 ==
    (Len(jobs) >= Q + W + 1 /\ \A j \in JobIds : ~Returned(j)) => Rejected # {}

C6_FifoDispatch ==
    \A a, b \in Accepted :
        a < b =>
            /\ Dequeued(b) => Dequeued(a)
            /\ Handed(b) => Handed(a)
            /\ W = 1 => (Started(b) => Started(a))

\* C6 witness: three jobs were accepted; the first is executing, the second is
\* in the dispatcher's hand and the third is still queued.
C6_Witness ==
    /\ Len(jobs) = 3
    /\ W = 1
    /\ St(1) = "running"
    /\ St(2) = "held"
    /\ queue = <<3>>

\* C7: a job's permit is given back when its execution ends, whatever the
\* conversion did: the step that ends a task adds one permit, all W permits
\* are available whenever no task and no dispatcher holds one, and a job that
\* is dequeued then can take a permit and run.
C7_PermitReleased ==
    /\ [][\A j \in JobIds : (jobs[j].st # "done" /\ jobs'[j].st = "done")
                               => permits' = permits + 1]_vars
    /\ []((InFlight = {} /\ dpc # "spawn") => permits = W)
    /\ []((InFlight = {} /\ dpc = "acquire") => ENABLED DispatcherAcquire)

\* C7 witness: with one worker, the first job's conversion panicked and the
\* second returned a typed error; both tasks have ended, and the third job
\* executes.
C7_Witness ==
    /\ W = 1
    /\ St(1) = "done" /\ jobs[1].slot = "Internal"
    /\ St(2) = "done" /\ jobs[2].slot = "DecodeError"
    /\ St(3) = "running"

\* C8: every accepted job leaves the queue and the dispatcher, and its caller,
\* unless it gave up, eventually gets a success value, a typed error or an
\* Internal error.
C8_EventualOutcome ==
    /\ [](resp.val \in {"none", "Ok", "DecodeError", "Internal",
                        "Internal(Worker dropped)"})
    /\ \A j \in 1..MaxJobs :
          /\ (St(j) \notin {"new", "rejected"}) ~> Handed(j)
          /\ (St(j) \notin {"new", "rejected"}) ~> (Rx(j) \in {"got", "dropped"})

\* C8 witness: with one worker the third job, which waited behind two others,
\* has delivered an Internal error to its caller.
C8_Witness ==
    /\ W = 1
    /\ resp = [job |-> 3, val |-> "Internal"]
    /\ Rx(1) = "got"
    /\ Rx(2) = "got"

\* C9: no job's result channel ever receives a second value.
C9_AtMostOneSend == \A j \in JobIds : jobs[j].nsent <= 1

\* C9 witness: a job's value was sent once, its task has ended and its caller
\* has taken the value.
C9_Witness ==
    \E j \in JobIds :
        /\ jobs[j].nsent = 1
        /\ jobs[j].st = "done"
        /\ jobs[j].rx = "got"

\* A step in which job j's caller drops its handle.
AbandonStep(j) == jobs[j].rx = "waiting" /\ jobs'[j].rx = "dropped"

\* C10: when a caller drops its handle before the job completes, the job is
\* not cancelled (the step changes nothing but the handle), the send that
\* follows puts nothing in the channel, the dispatcher does not stop, the
\* conversion runs to completion and the permit is given back.
C10_AbandonHarmless ==
    /\ [][\A j \in JobIds : AbandonStep(j) =>
            /\ jobs'[j].st = jobs[j].st
            /\ jobs'[j].result = jobs[j].result
            /\ <<queue, permits, dpc, held>>' = <<queue, permits, dpc, held>>]_vars
    /\ [][\A j \in JobIds :
            (jobs[j].rx = "dropped" /\ jobs[j].st = "joined" /\ jobs'[j].st # "joined") =>
                /\ jobs'[j].st = "sent"
                /\ jobs'[j].nsent = jobs[j].nsent
                /\ jobs'[j].slot = "none"]_vars
    /\ [][\A j \in JobIds :
            (jobs[j].rx = "dropped" /\ jobs[j].st = "sent" /\ jobs'[j].st # "sent") =>
                /\ jobs'[j].st = "done"
                /\ permits' = permits + 1]_vars
    /\ [](dpc = "exit" => closed /\ queue = <<>>)
    /\ \A j \in 1..MaxJobs :
          (Rx(j) = "dropped" /\ St(j) # "rejected") ~> (St(j) = "done")

\* C10 witness: a job whose handle was dropped before the send has run to
\* completion without sending, every permit is back and the dispatcher waits
\* for the next job.
C10_Witness ==
    \E j \in JobIds :
        /\ jobs[j].rx = "dropped"
        /\ jobs[j].st = "done"
        /\ jobs[j].nsent = 0
        /\ permits = W
        /\ dpc = "recv"

\* The conversion of job j panicked: its execution task holds, has sent or has
\* delivered the Internal error the JoinError was turned into.
Panicked(j) ==
    \/ jobs[j].result = "Internal"
    \/ jobs[j].slot = "Internal"
    \/ resp = [job |-> j, val |-> "Internal"]

\* C11: when a job's conversion panics, the panic goes no further than the
\* blocking closure: the execution task resumes with an Internal error and can
\* send it, the waiting caller can take it and gets exactly Internal, the task
\* then gives its permit back, the dispatcher has not stopped, and a later
\* submission that finds room in the queue is accepted.
C11_PanicContained ==
    /\ [](resp.val # "Panic")
    /\ [](\A j \in JobIds :
            /\ jobs[j].result # "Panic"
            /\ jobs[j].slot # "Panic"
            /\ jobs[j].result = "Internal" => (jobs[j].st = "joined" /\ ENABLED ExecSend(j))
            /\ (jobs[j].slot = "Internal" /\ jobs[j].rx = "waiting") => ENABLED HandlerRecv(j))
    /\ [][\A j \in JobIds :
            (jobs[j].slot = "Internal" /\ jobs[j].rx = "waiting" /\ jobs'[j].rx = "got")
                => resp' = [job |-> j, val |-> "Internal"]]_vars
    /\ [][\A j \in JobIds :
            (jobs[j].slot = "Internal" /\ jobs[j].st = "sent" /\ jobs'[j].st # "sent")
                => (jobs'[j].st = "done" /\ permits' = permits + 1)]_vars
    /\ []((\E j \in JobIds : Panicked(j)) =>
            /\ dpc = "exit" => (closed /\ queue = <<>>)
            /\ (~closed /\ Len(jobs) < MaxJobs /\ Len(queue) < Q) =>
                  ENABLED (Submit(MaxJobs) /\ jobs'[Len(jobs')].st = "queued"))

\* C11 witness: with one worker, the first job's conversion panicked, its
\* caller got Internal, its task has ended, and the second job executes on the
\* permit the first one gave back.
C11_Witness ==
    /\ W = 1
    /\ resp = [job |-> 1, val |-> "Internal"]
    /\ St(1) = "done"
    /\ St(2) = "running"
    /\ dpc = "recv"

\* The values an execution task can send: what convert() returns, or Internal
\* for a panic.
SentValues == {JoinResult(o) : o \in ConvertOutcomes}

\* C12: when a job's sender is dropped before any value was sent (the
\* dispatcher ended while the job was queued or in its hand), the caller's
\* await completes, and with Internal("Worker dropped"); that value is never
\* one an execution task sends, and a caller gets it in no other case.
C12_WorkerDropped ==
    /\ "Internal(Worker dropped)" \notin SentValues
    /\ [](\A j \in JobIds :
            /\ jobs[j].slot \in SentValues \cup {"none"}
            /\ jobs[j].st = "dropped" => (jobs[j].nsent = 0 /\ jobs[j].slot = "none")
            /\ (jobs[j].st = "dropped" /\ jobs[j].rx = "waiting") => ENABLED HandlerRecv(j))
    /\ [][\A j \in JobIds :
            (jobs[j].st = "dropped" /\ jobs[j].rx = "waiting" /\ jobs'[j].rx = "got")
                => resp' = [job |-> j, val |-> "Internal(Worker dropped)"]]_vars
    /\ [](resp.val = "Internal(Worker dropped)" => St(resp.job) = "dropped")

\* C12 witness: the dispatcher ended with job 2 in its hand and job 3 in the
\* queue; job 1, dispatched before, delivered its value, and the caller of
\* job 3 has observed Internal("Worker dropped").
C12_Witness ==
    /\ dpc = "exit"
    /\ ~closed
    /\ St(1) = "done" /\ Rx(1) = "got"
    /\ St(2) = "dropped"
    /\ St(3) = "dropped"
    /\ resp = [job |-> 3, val |-> "Internal(Worker dropped)"]

\* The quality job j was submitted with is outside [min_quality, max_quality].
BadQuality(j) ==
    jobs[j].quality < config.min_quality \/ jobs[j].quality > config.max_quality

\* C13: a job submitted with a quality below min_quality or above max_quality
\* gets InvalidQuality as its result whatever its input is: that is what its
\* conversion returns, what is sent and what its caller receives; its task
\* gives the permit back when it ends, and once every accepted job has ended
\* all W permits are available and the queue is empty, as before the
\* submissions.
C13_InvalidQuality ==
    /\ [][\A j \in JobIds :
            (BadQuality(j) /\ jobs[j].st = "running" /\ jobs'[j].st # "running")
                => (jobs'[j].st = "joined" /\ jobs'[j].result = "InvalidQuality")]_vars
    /\ [](\A j \in JobIds :
            BadQuality(j) =>
                /\ jobs[j].result \in {"none", "InvalidQuality"}
                /\ jobs[j].slot \in {"none", "InvalidQuality"}
                /\ resp.job = j => resp.val = "InvalidQuality")
    /\ [][\A j \in JobIds :
            (BadQuality(j) /\ jobs[j].st = "sent" /\ jobs'[j].st # "sent")
                => (jobs'[j].st = "done" /\ permits' = permits + 1)]_vars
    /\ []((\A j \in JobIds : jobs[j].st \in {"done", "rejected"})
            => (permits = W /\ queue = <<>> /\ dpc = "recv"))

\* C13 witness: job 1 carried bytes libheif cannot read and quality 59, job 2
\* a good image and quality 96; both callers got InvalidQuality, both tasks
\* have ended and every permit is back.
C13_Witness ==
    /\ Len(jobs) = 2
    /\ ~jobs[1].input.reads /\ jobs[1].quality = 59
    /\ jobs[2].input.reads /\ jobs[2].quality = 96
    /\ St(1) = "done" /\ Rx(1) = "got"
    /\ St(2) = "done"
    /\ resp = [job |-> 2, val |-> "InvalidQuality"]
    /\ permits = W
    /\ queue = <<>>

\* What convert() does with the arguments job j was submitted with.
Converted(j) == Convert(jobs[j].input, jobs[j].quality, ConvertOptions)

\* C14: the conversion is called at most once per accepted job (a job starts
\* executing only from the freshly spawned task and never goes back to a state
\* before the call), and the value that is sent and that the caller receives
\* is the one that call returned: Ok, or the same DecodeError, EncodeError,
\* ImageTooLarge or InvalidQuality.
C14_OnceAndVerbatim ==
    /\ [][\A j \in JobIds :
            /\ (jobs[j].st # "running" /\ jobs'[j].st = "running") => jobs[j].st = "spawned"
            /\ Started(j) => jobs'[j].st \in {"running", "joined", "sent", "done"}
            /\ Returned(j) => jobs'[j].st \in {"joined", "sent", "done"}]_vars
    /\ [](\A j \in JobIds :
            Converted(j) # "Panic" =>
                /\ jobs[j].result \in {"none", Converted(j)}
                /\ jobs[j].slot \in {"none", Converted(j)}
                /\ resp.job = j => resp.val = Converted(j))
    /\ [][\A j \in JobIds :
            (Converted(j) # "Panic" /\ jobs[j].rx = "waiting" /\ jobs'[j].rx = "got")
                => resp' = [job |-> j, val |-> Converted(j)]]_vars
    /\ [](\A j \in JobIds :
            (Converted(j) # "Panic" /\ Returned(j) /\ jobs[j].rx # "waiting")
                => jobs[j].nsent = 1)

\* C14 witness: job 1, an image wider than max_resolution, gave its caller
\* ImageTooLarge; job 2, whose compression fails, gave its caller EncodeError;
\* each was sent exactly one value.
C14_Witness ==
    /\ Len(jobs) = 2
    /\ Converted(1) = "ImageTooLarge"
    /\ Converted(2) = "EncodeError"
    /\ Rx(1) = "got" /\ jobs[1].nsent = 1
    /\ jobs[2].nsent = 1
    /\ resp = [job |-> 2, val |-> "EncodeError"]

\* Jobs the dispatcher has dequeued and not yet handed to an execution task.
InHand == {j \in JobIds : jobs[j].st = "held"}

\* C15: the dispatcher takes the next job from the queue only after it got a
\* permit for the current one and handed it on: at most one job is dequeued
\* and not yet dispatched, it is the one the dispatcher is acquiring or
\* spawning for, a job leaves the queue only in a step of the dispatcher from
\* its receive position, and while a job waits for its permit no queued job
\* leaves the queue.
C15_OneInHand ==
    /\ [](Cardinality(InHand) <= 1)
    /\ [](InHand = (IF dpc \in {"acquire", "spawn"} THEN {held} ELSE {}))
    /\ [][\A j \in JobIds :
            (jobs[j].st = "queued" /\ jobs'[j].st # "queued")
                => (dpc = "recv" /\ dpc' = "acquire" /\ InHand = {} /\ j = Head(queue))]_vars
    /\ [][dpc = "acquire" =>
            /\ \A j \in JobIds : jobs[j].st = "queued" => jobs'[j].st = "queued"
            /\ queue' \in {queue, Append(queue, Len(jobs) + 1)}]_vars

\* C15 witness: the only worker is busy with job 1, job 2 has been dequeued
\* and waits for a permit, and jobs submitted since stay in a full queue.
C15_Witness ==
    /\ W = 1
    /\ Q = 1
    /\ permits = 0
    /\ dpc = "acquire"
    /\ InHand = {2}
    /\ St(1) = "running"
    /\ queue = <<3>>

C17_ExitOnClosedLimiter ==
    /\ [][(dpc = "acquire" /\ dpc' = "exit") =>
            /\ jobs'[held].st = "dropped"
            /\ held' = 0
            /\ permits' = permits
            /\ \A j \in JobIds : jobs[j].st = "queued" => jobs'[j].st = "dropped"
            /\ \A j \in JobIds : Handed(j) => jobs'[j] = jobs[j]]_vars
    /\ [][\A j \in JobIds : jobs[j].st = "dropped" => jobs'[j].st = "dropped"]_vars
    /\ [][dpc = "exit" =>
            /\ dpc' = "exit"
            /\ \A j \in JobIds : jobs'[j].st \notin {"queued", "held"}]_vars
    /\ [](dpc = "exit" =>
            /\ held = 0
            /\ \A j \in JobIds :
                  /\ jobs[j].st = "spawned" => ENABLED ExecStart(j)
                  /\ jobs[j].st = "running" => ENABLED ExecJoin(j, ConvertOutcomes)
                  /\ jobs[j].st = "joined" => ENABLED ExecSend(j)
                  /\ jobs[j].st = "sent" => ENABLED ExecRelease(j))

\* C17 witness: the dispatcher met the closed semaphore with job 2 in its
\* hand while job 1 was dispatched: job 2 is dropped, job 1's conversion has
\* returned Ok to its task, which still holds its permit, and the pool itself
\* is alive.
C17_Witness ==
    /\ dpc = "exit"
    /\ ~closed
    /\ St(2) = "dropped"
    /\ St(1) = "joined"
    /\ jobs[1].result = "Ok"
    /\ permits = W - 1

\* C18 (the claim as stated): the configuration the pool is built from has
\* worker_count >= 1, queue_size >= 1, max_resolution, min_quality and
\* max_quality positive, and min_quality <= max_quality, whatever the
\* environment overrides are.
C18_ConfigValid ==
    /\ config.worker_count >= 1
    /\ config.queue_size >= 1
    /\ config.max_resolution >= 1
    /\ config.min_quality >= 1
    /\ config.max_quality >= 1
    /\ config.min_quality <= config.max_quality

\* C19: permits are conserved: the permits available in the semaphore plus
\* the permits held for jobs that were dispatched and have not ended (one per
\* job, from its acquire to the end of its task) are W; the available count is
\* between 0 and W; and every job whose conversion executes is one of the
\* holders.
C19_PermitConservation ==
    /\ permits + Cardinality(PermitHolders) = W
    /\ permits \in 0..W
    /\ Executing \subseteq PermitHolders
    /\ \A j \in JobIds : Started(j) /\ jobs[j].st # "done" => j \in PermitHolders

\* C19 witness: with two workers, job 1 executes, the dispatcher has just
\* acquired the second permit for job 2, and none is left.
C19_Witness ==
    /\ W = 2
    /\ permits = 0
    /\ St(1) = "running"
    /\ dpc = "spawn"
    /\ held = 2

\* Accepted jobs whose result has not been sent yet.
Undelivered == {j \in JobIds : jobs[j].st \in {"queued", "held", "spawned", "running", "joined"}}

\* Accepted jobs not yet handed to an execution task.
Undispatched == {j \in JobIds : jobs[j].st \in {"queued", "held"}}

C21_QueueFullNoEffect ==
    /\ [][(SubmitStep /\ jobs'[Len(jobs')].st = "rejected") =>
            /\ <<queue, permits, dpc, held, closed, resp>>'
                  = <<queue, permits, dpc, held, closed, resp>>
            /\ \A j \in JobIds : jobs'[j] = jobs[j]
            /\ jobs'[Len(jobs')] = NewJob("rejected", "none")]_vars
    /\ [][\A j \in JobIds : jobs[j].st = "rejected" => jobs'[j] = jobs[j]]_vars
    /\ [](\A j \in Rejected :
            /\ held # j
            /\ j \notin PermitHolders
            /\ \A i \in 1..Len(queue) : queue[i] # j)
    /\ [](\A i \in 1..Len(queue) : jobs[queue[i]].st = "queued")

\* C21 witness: with one worker and a queue of one, job 3 found the queue
\* full and was turned away; job 2 kept its place in the queue and job 1 went
\* on to deliver its result.
C21_Witness ==
    /\ W = 1
    /\ Q = 1
    /\ St(3) = "rejected"
    /\ queue = <<2>>
    /\ St(1) = "sent"
    /\ resp = [job |-> 1, val |-> "Ok"]

\* C22: a job whose handle is dropped while it is queued or in the
\* dispatcher's hand stays where it is: the step moves nothing in the queue or
\* the dispatcher; the job then leaves the queue only as its head, into the
\* dispatcher's hand, leaves the hand only into an execution task that holds
\* a permit, starts and ends its conversion like any other, is never dequeued
\* after a job submitted later, and reaches its end.
C22_AbandonedQueuedJobRuns ==
    /\ [][\A j \in JobIds :
            (AbandonStep(j) /\ jobs[j].st \in {"queued", "held"}) =>
                /\ jobs'[j].st = jobs[j].st
                /\ <<queue, held, dpc, permits>>' = <<queue, held, dpc, permits>>]_vars
    /\ [][\A j \in JobIds :
            jobs[j].rx = "dropped" =>
                /\ (jobs[j].st = "queued" /\ jobs'[j].st # "queued")
                      => (jobs'[j].st = "held" /\ j = Head(queue) /\ held' = j)
                /\ (jobs[j].st = "held" /\ jobs'[j].st # "held")
                      => (jobs'[j].st = "spawned" /\ j \in PermitHolders)
                /\ (jobs[j].st = "spawned" /\ jobs'[j].st # "spawned")
                      => jobs'[j].st = "running"
                /\ (jobs[j].st = "running" /\ jobs'[j].st # "running")
                      => jobs'[j].st = "joined"]_vars
    /\ [](\A a, b \in Accepted :
            (a < b /\ jobs[a].rx = "dropped" /\ Dequeued(b)) => Dequeued(a))
    /\ [](\A j \in JobIds :
            (jobs[j].rx = "dropped" /\ jobs[j].st = "queued")
                => \E i \in 1..Len(queue) : queue[i] = j)
    /\ \A j \in 1..MaxJobs :
          (Rx(j) = "dropped" /\ St(j) \in {"queued", "held"}) ~> (St(j) = "done")

\* C22 witness: with one worker, the caller of job 2 is gone and its
\* conversion executes, after job 1 ended and before job 3, which is still
\* queued behind it with a caller that waits.
C22_Witness ==
    /\ W = 1
    /\ St(1) = "done"
    /\ Rx(2) = "dropped"
    /\ St(2) = "running"
    /\ jobs[2].nsent = 0
    /\ queue = <<3>>
    /\ Rx(3) = "waiting"

====
